---- MODULE Spec2Model ----
(***************************************************************************)
(* RedisManager (src/lib/redis_client.py): connection lifecycle, health    *)
(* monitor, retry executor and cache operations, as an asyncio program.    *)
(* One step of the model is the code a task runs between two suspension    *)
(* points (awaits on the lock, on the network, on a sleep or on a task).   *)
(* Fields of a process record below the line "ghost" are history           *)
(* variables: they record what happened and are never read by the code.    *)
(***************************************************************************)
EXTENDS Integers, Sequences, FiniteSets, TLC

\* ---------------------------------------------------------------- bounds
NumCallers == 2
MaxTasks == 2
MaxHandles == 5
MaxCalls == 2
MaxFaults == 3

\* ----------------------------------------------------- program constants
retry_attempts == 3
retry_delay == 1

Callers == 1..NumCallers
Tasks == (NumCallers + 1)..(NumCallers + MaxTasks)
Procs == Callers \cup Tasks
Handles == 1..MaxHandles

TransientErrors == {"ConnectionError", "TimeoutError"}
ExceptionClasses ==
    {"RedisConnectionError", "ConnectionError", "TimeoutError",
     "ResponseError", "Other", "AttributeError"}
CacheOps == {"get", "set", "delete", "exists"}
ConnectPcs == {"c_lock", "c_ping", "c_sleep"}

VARIABLES
    redis,              \* self.redis: a handle, or 0 for None
    is_connected,       \* self._is_connected
    health_check_task,  \* self._health_check_task: a task, or 0 for None
    lock_holder,        \* self._connection_lock: the holder, or 0
    lock_waiters,       \* self._connection_lock: FIFO queue of waiters
    closed,             \* handles on which close() has been run
    calls,              \* number of API calls made so far
    faults,             \* number of failures the store or network has shown
    pinged,             \* ghost: self.redis has passed its connect probe
    proc,               \* per task: position, locals and ghost history
    \* the cache, seen through one key of a reachable or failing store
    input,              \* the value and expiry the set() calls are given
    store,              \* the store's entry for the key
    call,               \* the cache call under way, in _execute_with_retry
    lastEvent,          \* ghost: the last event on the key, and its result
    prevEvent           \* ghost: the event before that

manager == <<redis, is_connected, health_check_task, lock_holder,
            lock_waiters, closed, calls, faults, pinged, proc>>

cacheVars == <<input, store, call, lastEvent, prevEvent>>

vars == <<manager, cacheVars>>

Idle0 ==
    [pc |-> "idle", op |-> "none", req |-> FALSE, ret |-> "none",
     attempt |-> 0, eattempt |-> 0, operation |-> 0,
     last_exception |-> 0, result |-> "none", cancelReq |-> FALSE,
     h |-> 0, reply |-> "none",
     \* ghost
     entry |-> "none", conc |-> FALSE, atLock |-> "none",
     probes |-> 0, nfail |-> 0, unexp |-> FALSE, waited |-> 0,
     lastWait |-> 0, npre |-> 0, preres |-> "none", ninv |-> 0,
     ntrans |-> 0, nreconn |-> 0, ewaited |-> 0, lastFail |-> 0,
     exc |-> "none", cause |-> 0, hp |-> "none", seen |-> "none",
     cancelled |-> FALSE, recovered |-> FALSE]

NoTask == [Idle0 EXCEPT !.pc = "none"]

\* ----------------------------------------------------------- Python values
\* None, bool, str, int, float (written i.f), dict (a sequence of key/value
\* pairs) and list
None == [t |-> "none"]
Bool(b) == [t |-> "bool", b |-> b]
Str(s) == [t |-> "str", s |-> s]
Integer(n) == [t |-> "int", n |-> n]
Float(i, f) == [t |-> "float", i |-> i, f |-> f]
Dict(items) == [t |-> "dict", items |-> items]
List(items) == [t |-> "list", items |-> items]

\* the values set() is given: `Union[str, dict, list, int, float]`, line 223
Values ==
    {Str("a"), Str("7"), Integer(7), Integer(-1), Float(3, 5),
     Dict(<<>>), Dict(<< <<Str("user_id"), Integer(7)>> >>),
     Dict(<< <<Integer(1), Str("a")>> >>),
     List(<<>>), List(<<Integer(1), Str("a")>>),
     List(<< Dict(<< <<Str("a"), Float(3, 5)>> >>) >>)}

\* `expire`: seconds, or 0 for None (no expiry)
Expiries == {0, 60}

\* what json.loads can return for the texts that occur: JSON objects have
\* text keys
JsonValues ==
    {Str("a"), Str("7"), Integer(7), Integer(-1), Float(3, 5),
     Dict(<<>>), Dict(<< <<Str("user_id"), Integer(7)>> >>),
     Dict(<< <<Str("1"), Str("a")>> >>),
     List(<<>>), List(<<Integer(1), Str("a")>>),
     List(<< Dict(<< <<Str("a"), Float(3, 5)>> >>) >>)}

\* str(v) of a number
PyStr(v) ==
    IF v.t = "int" THEN ToString(v.n)
    ELSE ToString(v.i) \o "." \o ToString(v.f)

\* json.dumps writes every key of a dict as a JSON string: a number key is
\* turned into its text
JsonKey(k) == "\"" \o (IF k.t = "str" THEN k.s ELSE PyStr(k)) \o "\""

RECURSIVE JsonDumps(_), JsonItems(_), JsonPairs(_)
\* json.dumps(v), lines 241-242, with the default separators
JsonDumps(v) ==
    CASE v.t = "str" -> "\"" \o v.s \o "\""
      [] v.t \in {"int", "float"} -> PyStr(v)
      [] v.t = "list" -> "[" \o JsonItems(v.items) \o "]"
      [] v.t = "dict" -> "{" \o JsonPairs(v.items) \o "}"

JsonItems(items) ==
    IF items = <<>> THEN ""
    ELSE IF Len(items) = 1 THEN JsonDumps(items[1])
    ELSE JsonDumps(items[1]) \o ", " \o JsonItems(Tail(items))

JsonPairs(items) ==
    IF items = <<>> THEN ""
    ELSE IF Len(items) = 1
         THEN JsonKey(items[1][1]) \o ": " \o JsonDumps(items[1][2])
    ELSE JsonKey(items[1][1]) \o ": " \o JsonDumps(items[1][2]) \o ", "
           \o JsonPairs(Tail(items))

\* json.loads(text), line 261: the value whose JSON text this is, or
\* JSONDecodeError when the text is no JSON
JsonDecodable(text) == \E j \in JsonValues : JsonDumps(j) = text

JsonLoads(text) == CHOOSE j \in JsonValues : JsonDumps(j) = text

Encode_JsonAll(v) == JsonDumps(v)

\* lines 241-244: what set() sends to the store for `value`
Encode(v) ==
    IF v.t \in {"dict", "list"} THEN JsonDumps(v)
    ELSE IF v.t # "str" THEN PyStr(v)
    ELSE v.s

\* ------------------------------------------------------ the store, one key
NoKey == [present |-> FALSE, text |-> "", ttl |-> 0]

\* no cache call under way
NoCall ==
    [pc |-> "idle", op |-> "none", attempt |-> 0, value |-> "",
     \* ghost
     nfail |-> 0, removed |-> FALSE]

\* what happened to the key last: a call that returned `res` (clean: with no
\* failure on the way; removed: it took the key out of the store), or the
\* expiry of the key
Event(op, res, clean, removed) ==
    [op |-> op, res |-> res, clean |-> clean, removed |-> removed]

NoEvent == Event("none", None, FALSE, FALSE)

\* a run of cache calls that set the key to v with expiry e
CacheStart(v, e) ==
    /\ input = [v |-> v, e |-> e]
    /\ store = NoKey
    /\ call = NoCall
    /\ lastEvent = NoEvent
    /\ prevEvent = NoEvent

ManagerInit ==
    /\ redis = 0
    /\ is_connected = FALSE
    /\ health_check_task = 0
    /\ lock_holder = 0
    /\ lock_waiters = <<>>
    /\ closed = {}
    /\ calls = 0
    /\ faults = 0
    /\ pinged = FALSE
    /\ proc = [p \in Procs |-> IF p \in Callers THEN Idle0 ELSE NoTask]

Init == ManagerInit /\ CacheStart(Str("a"), 0)

\* ------------------------------------------------------------ asyncio.Lock
\* acquire(): taken at once when free, else the caller joins the FIFO queue.
Acquire(p) ==
    IF lock_holder = 0
    THEN lock_holder' = p /\ UNCHANGED lock_waiters
    ELSE lock_waiters' = Append(lock_waiters, p) /\ UNCHANGED lock_holder

\* release(): the first waiter is woken and nobody can overtake it.
Release ==
    IF lock_waiters = <<>>
    THEN lock_holder' = 0 /\ UNCHANGED lock_waiters
    ELSE lock_holder' = Head(lock_waiters) /\ lock_waiters' = Tail(lock_waiters)

\* ------------------------------------------------------------------ tasks
TaskDone(t) == proc[t].pc \in {"none", "done"}

\* state of the manager as a caller sees it when it makes a call
EntryState ==
    IF redis = 0 THEN "nohandle"
    ELSE IF is_connected THEN "connected" ELSE "handle"

\* handles some activity still refers to
InUse ==
    {redis} \cup {proc[p].operation : p \in Procs} \cup {proc[p].h : p \in Procs}

FreshHandle == CHOOSE x \in Handles : x \notin InUse /\ \A y \in Handles : y \notin InUse => x <= y

\* the environment: a request is answered `e`; anything but "ok" is a failure
\* of the store or the network, of which a run shows at most MaxFaults
Answer(e) ==
    IF e = "ok" THEN UNCHANGED faults
    ELSE faults < MaxFaults /\ faults' = faults + 1

\* ------------------------------------------------- small pieces of the code
\* line 77: `if self._is_connected and self.redis`
AlreadyConnected == is_connected /\ redis # 0

HasMoreAttempts_OneLess(attempt) == attempt < retry_attempts - 2

\* lines 80/105 and 167/175: another attempt follows this one,
\* `if attempt < self.retry_attempts - 1`
HasMoreAttempts(attempt) == attempt < retry_attempts - 1

ConnectBackoff_Fixed(attempt) == retry_delay

\* line 106: `self.retry_delay * (2 ** attempt)`
ConnectBackoff(attempt) == retry_delay * (2 ^ attempt)

OperationDelay_Exponential(attempt) == retry_delay * (2 ^ attempt)

\* line 176: `asyncio.sleep(self.retry_delay)`
OperationDelay(attempt) == retry_delay

\* line 103: the exceptions connect() treats as a failed attempt
ConnectRetryable(e) == e \in TransientErrors

\* line 171: `last_exception = e`; an exception object is known by the number
\* of the invocation that raised it
Caught(last, inv) == inv

OperationRetryable_Response(e) == e \in TransientErrors \cup {"ResponseError"}

\* line 170: the exceptions the executor retries
OperationRetryable(e) == e \in TransientErrors

ApiCatches_ConnectionOnly(e) == e = "RedisConnectionError"

\* lines 216-221 and alike: `except RedisConnectionError` / `except Exception`
ApiCatches(e) == e = "RedisConnectionError" \/ e \in ExceptionClasses

MarkDisconnected_Kept(conn) == conn

\* lines 154 and 174: `self._is_connected = False` after a failed probe or
\* operation; `conn` is the flag before
MarkDisconnected(conn) == FALSE

DisconnectFlag_Kept(conn) == conn

\* line 124: `self._is_connected = False`; `conn` is the flag before
DisconnectFlag(conn) == FALSE

HandleAfterClose_NoFinally(e, handle) == IF e = "ok" THEN 0 ELSE handle

\* lines 134-140: self.redis after close() returned or raised `e`
\* (`finally: self.redis = None`)
HandleAfterClose(e, handle) == 0

\* what get/set/delete/exists return from their except clauses
Neutral(op) == IF op = "get" THEN "absent" ELSE "false"

\* what the wrapper returns for the answer of the store: "hit" is a string
\* for GET and 1 for DELETE and EXISTS, "miss" is nil or 0; SET answers OK
\* (lines 215, 248, 274, 286)
Converted(op, reply) ==
    IF op = "get" THEN (IF reply = "hit" THEN "value" ELSE "absent")
    ELSE IF op = "set" THEN "true"
    ELSE (IF reply = "hit" THEN "true" ELSE "false")

\* get, set, delete and exists run the same code around the executor and
\* differ in the bound method and in these conversions only: a cache call is
\* modelled once, and ApiResult(op, rec) is what it returns when it is `op`.
\* rec.exc is what the executor (or the lookup of the bound method) raised.
ApiResult(op, rec) ==
    IF rec.exc = "none" THEN Converted(op, rec.reply)
    ELSE IF ApiCatches(rec.exc) THEN Neutral(op)
    ELSE "raise"

NeedMonitor_Always == TRUE

NeedMonitor_NoneOnly == health_check_task = 0

\* line 97: `not self._health_check_task or self._health_check_task.done()`
NeedMonitor == health_check_task = 0 \/ TaskDone(health_check_task)

\* a task object for asyncio.create_task: any finished slot can be reused
NewTaskId ==
    CHOOSE t \in Tasks : TaskDone(t) /\ \A u \in Tasks : TaskDone(u) => t <= u

\* ------------------------------------------------- returns and continuations
\* an API call returns `r` to its caller, which resumes in the same step
\* (a return is no suspension point) and sees the result
Finish(rec, r) ==
    [rec EXCEPT !.pc = "returned", !.result = r, !.h = 0, !.operation = 0]

\* the executor raised `e` into get/set/delete/exists (or the bound-method
\* lookup did): the call returns ApiResult(op, rec)
ApiReturn(rec, e) == Finish([rec EXCEPT !.exc = e], "cache")

\* line 169: `await operation(*args, **kwargs)` is issued
Invoke(rec) == [rec EXCEPT !.pc = "e_op", !.ninv = @ + 1]

MonitorContinues_Always(conn) == TRUE

\* line 144: `while self._is_connected`
MonitorContinues(conn) == conn

\* line 144, then the sleep of line 146 or the end of the task
LoopTop(rec, conn) ==
    [rec EXCEPT !.pc = IF MonitorContinues(conn) THEN "m_sleep" ELSE "done",
                !.h = 0]

\* the code that runs when connect() returns `r` to the place that called it;
\* `conn` is _is_connected as connect() left it
AfterConnect(rec0, r, conn) ==
    LET rec == rec0
        \* the locals of connect() are gone, and so is its history
        back == [rec0 EXCEPT !.req = FALSE, !.ret = "none", !.attempt = 0,
                            !.atLock = "none", !.conc = FALSE, !.probes = 0,
                            !.nfail = 0, !.unexp = FALSE, !.waited = 0,
                            !.lastWait = 0]
    IN
    CASE rec.ret = "api" -> Finish(rec, r)
      [] rec.ret = "e_pre" ->
            \* lines 163-169
            IF r = "true"
            THEN Invoke([back EXCEPT !.preres = r, !.eattempt = 0,
                                     !.last_exception = 0])
            ELSE ApiReturn([back EXCEPT !.preres = r], "RedisConnectionError")
      [] rec.ret = "e_retry" ->
            \* line 177 ignores the result; line 167 next iteration
            Invoke([back EXCEPT !.eattempt = @ + 1])
      [] rec.ret = "m_reconnect" ->
            \* lines 156, 144
            LoopTop([back EXCEPT !.hp = "none", !.entry = "none",
                                 !.recovered = conn], conn)

\* a call of connect(startup_required = req): line 76 `async with` the lock
EnterConnect(rec, req, ret) ==
    [rec EXCEPT !.pc = "c_lock", !.req = req, !.ret = ret, !.attempt = 0,
                !.atLock = "none", !.probes = 0,
                !.nfail = 0, !.unexp = FALSE, !.waited = 0, !.lastWait = 0,
                !.conc = (ret = "api" /\ ~AlreadyConnected
                          /\ \E q \in Procs : proc[q].pc \in ConnectPcs)]

\* lines 112-119: the loop is over without success
FailResult(req) == IF req THEN "raise" ELSE "false"

ConnectFails(p, rec) ==
    /\ is_connected' = FALSE
    /\ proc' = [proc EXCEPT ![p] = AfterConnect(rec, FailResult(rec.req), FALSE)]
    /\ Release
    /\ UNCHANGED <<health_check_task, closed>>

\* a caller that has just been handed its result runs on before any other
\* task is scheduled
NoReturnPending == \A c \in Callers : proc[c].pc # "returned"

\* ------------------------------------------------------------- connect()
\* lines 82-94, one attempt up to the await of the ping: a fresh handle is
\* constructed and pinged, or the constructor raises something unexpected
\* (line 108), which ends the loop
StartAttempt(p, rec) ==
    \/ /\ \E x \in Handles : x \notin InUse
       /\ Answer("ok")
       /\ redis' = FreshHandle
       /\ closed' = closed \ {FreshHandle}
       /\ pinged' = FALSE
       /\ proc' = [proc EXCEPT ![p] = [rec EXCEPT !.pc = "c_ping",
                                                  !.probes = @ + 1]]
       /\ UNCHANGED <<is_connected, health_check_task, lock_holder,
                      lock_waiters>>
    \/ /\ Answer("Other")
       /\ ConnectFails(p, [rec EXCEPT !.unexp = TRUE])
       /\ UNCHANGED <<redis, pinged>>

\* lines 76-80: the lock is held; already connected returns at once,
\* otherwise the first attempt starts
ConnectEnter(p) ==
    /\ proc[p].pc = "c_lock"
    /\ UNCHANGED cacheVars
    /\ NoReturnPending
    /\ UNCHANGED calls
    /\ lock_holder = p
    /\ ~proc[p].cancelReq
    /\ LET rec == [proc[p] EXCEPT !.atLock = EntryState] IN
       IF AlreadyConnected
       THEN /\ proc' = [proc EXCEPT ![p] = AfterConnect(rec, "true", is_connected)]
            /\ Release
            /\ UNCHANGED <<redis, is_connected, health_check_task, closed,
                           faults, pinged>>
       ELSE StartAttempt(p, rec)

\* lines 94-110: the answer to the ping
ConnectPing(p) ==
    /\ proc[p].pc = "c_ping"
    /\ UNCHANGED cacheVars
    /\ NoReturnPending
    /\ UNCHANGED calls
    /\ \E e \in {"ok", "ConnectionError", "TimeoutError", "Other"} :
         LET rec == [proc[p] EXCEPT
                       !.nfail = IF e \in TransientErrors THEN @ + 1 ELSE @,
                       !.unexp = (e = "Other")] IN
         /\ Answer(e)
         /\ IF e = "ok"
            THEN \* lines 95-101
                 /\ is_connected' = TRUE
                 /\ pinged' = TRUE
                 /\ IF NeedMonitor
                    THEN /\ \E t \in Tasks : TaskDone(t)
                         /\ health_check_task' = NewTaskId
                         /\ proc' = [proc EXCEPT
                                       ![NewTaskId] = [Idle0 EXCEPT !.pc = "m_new",
                                                                    !.op = "monitor"],
                                       ![p] = AfterConnect(rec, "true", TRUE)]
                    ELSE /\ proc' = [proc EXCEPT
                                       ![p] = AfterConnect(rec, "true", TRUE)]
                         /\ UNCHANGED health_check_task
                 /\ Release
                 /\ UNCHANGED <<redis, closed>>
            ELSE IF ConnectRetryable(e)
            THEN IF HasMoreAttempts(rec.attempt)
                 THEN \* line 106
                      /\ proc' = [proc EXCEPT ![p] =
                           [rec EXCEPT
                              !.pc = "c_sleep",
                              !.lastWait = ConnectBackoff(rec.attempt),
                              !.waited = @ + ConnectBackoff(rec.attempt)]]
                      /\ UNCHANGED <<redis, is_connected, health_check_task,
                                     lock_holder, lock_waiters, closed, pinged>>
                 ELSE /\ ConnectFails(p, rec)
                      /\ UNCHANGED <<redis, pinged>>
            ELSE \* lines 108-110
                 /\ ConnectFails(p, rec)
                 /\ UNCHANGED <<redis, pinged>>

\* line 106 is over: line 80 next attempt
ConnectSleep(p) ==
    /\ proc[p].pc = "c_sleep"
    /\ UNCHANGED cacheVars
    /\ NoReturnPending
    /\ UNCHANGED calls
    /\ StartAttempt(p, [proc[p] EXCEPT !.attempt = @ + 1])

\* a caller starts a new call
NewCall(op) == [Idle0 EXCEPT !.op = op, !.entry = EntryState]

\* callers are interchangeable: an idle caller makes the next call only when
\* no idle caller has a smaller number
MayCall(c) ==
    /\ NoReturnPending
    /\ proc[c].pc = "idle"
    /\ calls < MaxCalls
    /\ \A d \in Callers : d < c => proc[d].pc # "idle"

\* redis_manager.connect(startup_required = req), as src/main.py calls it
CallConnect(c, req) ==
    /\ UNCHANGED <<faults, pinged>>
    /\ UNCHANGED cacheVars
    /\ MayCall(c)
    /\ calls' = calls + 1
    /\ proc' = [proc EXCEPT ![c] = EnterConnect(NewCall("connect"), req, "api")]
    /\ Acquire(c)
    /\ UNCHANGED <<redis, is_connected, health_check_task, closed>>

\* ------------------------------------------- get / set / delete / exists
\* lines 215, 247, 273, 285: the bound method `self.redis.<op>` is looked up
\* first (AttributeError when self.redis is None), then the executor starts:
\* lines 162-169
CallOp(c) ==
    /\ UNCHANGED <<faults, pinged>>
    /\ UNCHANGED cacheVars
    /\ MayCall(c)
    /\ calls' = calls + 1
    /\ LET rec == NewCall("cache") IN
       IF redis = 0
       THEN /\ proc' = [proc EXCEPT ![c] = ApiReturn(rec, "AttributeError")]
            /\ UNCHANGED <<lock_holder, lock_waiters>>
       ELSE LET bound == [rec EXCEPT !.operation = redis] IN
            IF ~is_connected \/ redis = 0
            THEN /\ proc' = [proc EXCEPT ![c] =
                       EnterConnect([bound EXCEPT !.npre = @ + 1], FALSE, "e_pre")]
                 /\ Acquire(c)
            ELSE /\ proc' = [proc EXCEPT ![c] = Invoke(bound)]
                 /\ UNCHANGED <<lock_holder, lock_waiters>>
    /\ UNCHANGED <<redis, is_connected, health_check_task, closed>>

\* lines 169-185: the answer to the operation
ExecOp(p) ==
    /\ proc[p].pc = "e_op"
    /\ UNCHANGED cacheVars
    /\ NoReturnPending
    /\ UNCHANGED <<calls, pinged>>
    /\ \E e \in {"ok", "ConnectionError", "TimeoutError", "ResponseError", "Other"} :
         LET seen == [proc[p] EXCEPT
                        !.seen = IF e = "ok" THEN @ ELSE e,
                        !.lastFail = IF e = "ok" THEN @ ELSE proc[p].ninv,
                        !.ntrans = IF e \in TransientErrors THEN @ + 1 ELSE @] IN
         /\ Answer(e)
         /\ IF e = "ok"
            THEN /\ \E r \in {"hit", "miss"} :
                      proc' = [proc EXCEPT ![p] =
                                 Finish([seen EXCEPT !.reply = r], "cache")]
                 /\ UNCHANGED is_connected
            ELSE IF OperationRetryable(e)
            THEN \* lines 171-177
                 LET rec == [seen EXCEPT
                                !.last_exception = Caught(@, proc[p].ninv)] IN
                 /\ is_connected' = MarkDisconnected(is_connected)
                 /\ IF HasMoreAttempts(rec.eattempt)
                    THEN proc' = [proc EXCEPT ![p] =
                            [rec EXCEPT !.pc = "e_sleep",
                                        !.ewaited = @ + OperationDelay(rec.eattempt)]]
                    ELSE \* line 185
                         proc' = [proc EXCEPT ![p] =
                            ApiReturn([rec EXCEPT !.cause = rec.last_exception],
                                      "RedisConnectionError")]
            ELSE \* lines 178-183: raise
                 /\ proc' = [proc EXCEPT ![p] = ApiReturn(seen, e)]
                 /\ UNCHANGED is_connected
    /\ UNCHANGED <<redis, health_check_task, lock_holder, lock_waiters, closed>>

\* line 176 is over: line 177 `await self.connect(startup_required=False)`
ExecSleep(p) ==
    /\ proc[p].pc = "e_sleep"
    /\ UNCHANGED cacheVars
    /\ NoReturnPending
    /\ UNCHANGED <<calls, faults, pinged>>
    /\ proc' = [proc EXCEPT ![p] =
                  EnterConnect([@ EXCEPT !.nreconn = @ + 1], FALSE, "e_retry")]
    /\ Acquire(p)
    /\ UNCHANGED <<redis, is_connected, health_check_task, closed>>

\* ----------------------------------------------------------- disconnect()
\* lines 133-140 up to the await of close(), or to the end without a handle
CloseOrReturn(c) ==
    IF redis # 0
    THEN /\ proc' = [proc EXCEPT ![c].pc = "d_close", ![c].h = redis]
         /\ UNCHANGED <<lock_holder, lock_waiters>>
    ELSE /\ proc' = [proc EXCEPT ![c] = Finish(@, "none")]
         /\ Release

\* line 123
CallDisconnect(c) ==
    /\ UNCHANGED <<faults, pinged>>
    /\ UNCHANGED cacheVars
    /\ MayCall(c)
    /\ calls' = calls + 1
    /\ proc' = [proc EXCEPT ![c] = [NewCall("disconnect") EXCEPT !.pc = "d_lock"]]
    /\ Acquire(c)
    /\ UNCHANGED <<redis, is_connected, health_check_task, closed>>

\* lines 124-129 (or on to 133 when there is no live monitor)
DisconnectEnter(c) ==
    /\ proc[c].pc = "d_lock"
    /\ UNCHANGED cacheVars
    /\ NoReturnPending
    /\ UNCHANGED <<calls, faults, pinged>>
    /\ lock_holder = c
    /\ is_connected' = DisconnectFlag(is_connected)
    /\ IF health_check_task # 0 /\ ~TaskDone(health_check_task)
       THEN /\ proc' = [proc EXCEPT ![c].pc = "d_await",
                                    ![c].cancelled = TRUE,
                                    ![health_check_task].cancelReq = TRUE]
            /\ UNCHANGED <<lock_holder, lock_waiters>>
       ELSE CloseOrReturn(c)
    /\ UNCHANGED <<redis, health_check_task, closed>>

\* line 129: the awaited monitor is over (cancelled or returned)
DisconnectAwaited(c) ==
    /\ proc[c].pc = "d_await"
    /\ UNCHANGED cacheVars
    /\ NoReturnPending
    /\ UNCHANGED <<calls, faults, pinged>>
    /\ TaskDone(health_check_task)
    /\ CloseOrReturn(c)
    /\ UNCHANGED <<redis, is_connected, health_check_task, closed>>

\* lines 135-140: close() returns or raises; the handle is dropped either way
DisconnectClose(c) ==
    /\ proc[c].pc = "d_close"
    /\ UNCHANGED cacheVars
    /\ NoReturnPending
    /\ UNCHANGED calls
    /\ \E e \in {"ok", "Other"} :
         /\ Answer(e)
         /\ pinged' = (pinged /\ HandleAfterClose(e, redis) # 0)
         /\ closed' = (IF e = "ok" THEN closed \cup {proc[c].h} ELSE closed)
                      \cap ({proc[q].operation : q \in Procs}
                            \cup {proc[q].h : q \in Procs \ {c}})
         /\ redis' = HandleAfterClose(e, redis)
         /\ proc' = [proc EXCEPT ![c] =
                       Finish([@ EXCEPT !.exc = IF e = "ok" THEN "none" ELSE e],
                              "none")]
    /\ Release
    /\ UNCHANGED <<is_connected, health_check_task>>

\* ---------------------------------------------------- _health_check_loop()
\* the task created at line 98 runs for the first time: line 144
MonitorStart(t) ==
    /\ proc[t].pc = "m_new"
    /\ UNCHANGED cacheVars
    /\ NoReturnPending
    /\ UNCHANGED <<calls, faults, pinged>>
    /\ ~proc[t].cancelReq
    /\ proc' = [proc EXCEPT ![t] = LoopTop(@, is_connected)]
    /\ UNCHANGED <<redis, is_connected, health_check_task, lock_holder,
                   lock_waiters, closed>>

\* line 146 is over; lines 147-148 issue the probe when there is a handle
MonitorWake(t) ==
    /\ proc[t].pc = "m_sleep"
    /\ UNCHANGED cacheVars
    /\ NoReturnPending
    /\ UNCHANGED <<calls, faults, pinged>>
    /\ ~proc[t].cancelReq
    /\ proc' = [proc EXCEPT ![t] =
                  IF redis # 0
                  THEN [@ EXCEPT !.pc = "m_ping", !.h = redis,
                                 !.recovered = FALSE]
                  ELSE LoopTop([@ EXCEPT !.recovered = FALSE], is_connected)]
    /\ UNCHANGED <<redis, is_connected, health_check_task, lock_holder,
                   lock_waiters, closed>>

\* lines 148-156: the answer to the probe
MonitorPing(t) ==
    /\ proc[t].pc = "m_ping"
    /\ UNCHANGED cacheVars
    /\ NoReturnPending
    /\ UNCHANGED <<calls, pinged>>
    /\ ~proc[t].cancelReq
    /\ \E e \in {"ok", "TimeoutError"} :
         /\ Answer(e)
         /\ IF e = "ok"
            THEN /\ proc' = [proc EXCEPT ![t] = LoopTop(@, is_connected)]
                 /\ UNCHANGED <<is_connected, lock_holder, lock_waiters>>
            ELSE /\ is_connected' = MarkDisconnected(is_connected)
                 /\ proc' = [proc EXCEPT ![t] =
                       EnterConnect([@ EXCEPT !.hp = "fail", !.h = 0,
                                                !.entry = EntryState],
                                    FALSE, "m_reconnect")]
                 /\ Acquire(t)
    /\ UNCHANGED <<redis, health_check_task, closed>>

CancelPoints_NotInLockQueue == {"m_new", "m_sleep", "m_ping"}

\* the places where the monitor can be suspended while disconnect() holds the
\* lock and cancels it (line 127): not yet started, the sleep of line 146, the
\* probe of line 148, the queue of the lock at line 76
CancelPoints == {"m_new", "m_sleep", "m_ping", "c_lock"}

\* CancelledError is thrown into the task where it is suspended: line 150 at
\* the sleep or the probe; out of the task from the lock queue of connect()
\* (line 156 sits in an except clause and CancelledError is no Exception);
\* a task cancelled before its first step never runs. A waiter leaves the
\* queue of the lock, and passes the lock on if it had just been handed it
MonitorCancelled(t) ==
    /\ proc[t].cancelReq
    /\ UNCHANGED cacheVars
    /\ NoReturnPending
    /\ UNCHANGED <<calls, faults, pinged>>
    /\ proc[t].pc \in CancelPoints
    /\ proc' = [proc EXCEPT ![t] = [@ EXCEPT !.pc = "done", !.h = 0,
                                             !.cancelReq = FALSE]]
    /\ IF lock_holder = t
       THEN Release
       ELSE /\ lock_waiters' = SelectSeq(lock_waiters, LAMBDA q : q # t)
            /\ UNCHANGED lock_holder
    /\ UNCHANGED <<redis, is_connected, health_check_task, closed>>

\* ----------------------------------------------------------- health_check()
\* lines 194-199
CallHealth(c) ==
    /\ UNCHANGED <<faults, pinged>>
    /\ UNCHANGED cacheVars
    /\ MayCall(c)
    /\ calls' = calls + 1
    /\ proc' = [proc EXCEPT ![c] =
                  IF redis = 0
                  THEN Finish(NewCall("health_check"), "disconnected")
                  ELSE [NewCall("health_check") EXCEPT !.pc = "h_ping",
                                                        !.h = redis]]
    /\ UNCHANGED <<redis, is_connected, health_check_task, lock_holder,
                   lock_waiters, closed>>

\* lines 199-201: the answer to the ping; line 201 reads self.redis again
HealthPing(c) ==
    /\ proc[c].pc = "h_ping"
    /\ UNCHANGED cacheVars
    /\ NoReturnPending
    /\ UNCHANGED <<calls, pinged>>
    /\ \E e \in {"ok", "TimeoutError"} :
         /\ Answer(e)
         /\ proc' = [proc EXCEPT ![c] =
                    IF e # "ok" THEN Finish([@ EXCEPT !.exc = e], "unhealthy")
                    ELSE IF redis = 0
                    THEN Finish([@ EXCEPT !.exc = "AttributeError"], "unhealthy")
                    ELSE [@ EXCEPT !.pc = "h_info", !.h = redis]]
    /\ UNCHANGED <<redis, is_connected, health_check_task, lock_holder,
                   lock_waiters, closed>>

\* lines 201-210: the answer to info()
HealthInfo(c) ==
    /\ proc[c].pc = "h_info"
    /\ UNCHANGED cacheVars
    /\ NoReturnPending
    /\ UNCHANGED <<calls, pinged>>
    /\ \E e \in {"ok", "ConnectionError"} :
         /\ Answer(e)
         /\ proc' = [proc EXCEPT ![c] =
                    IF e = "ok" THEN Finish(@, "healthy")
                    ELSE Finish([@ EXCEPT !.exc = e], "unhealthy")]
    /\ UNCHANGED <<redis, is_connected, health_check_task, lock_holder,
                   lock_waiters, closed>>

\* the caller has seen the result of its call and goes on with something
\* else; the record of the call is dropped
Return(c) ==
    /\ proc[c].pc = "returned"
    /\ UNCHANGED cacheVars
    /\ proc' = [proc EXCEPT ![c] = Idle0]
    /\ UNCHANGED <<redis, is_connected, health_check_task, lock_holder,
                   lock_waiters, closed, calls, faults, pinged>>

Next ==
    \/ \E c \in Callers, req \in BOOLEAN : CallConnect(c, req)
    \/ \E c \in Callers : CallOp(c)
    \/ \E c \in Callers : CallDisconnect(c)
    \/ \E c \in Callers : CallHealth(c)
    \/ \E p \in Procs : ConnectEnter(p)
    \/ \E p \in Procs : ConnectPing(p)
    \/ \E p \in Procs : ConnectSleep(p)
    \/ \E p \in Procs : ExecOp(p)
    \/ \E p \in Procs : ExecSleep(p)
    \/ \E c \in Callers : DisconnectEnter(c)
    \/ \E c \in Callers : DisconnectAwaited(c)
    \/ \E c \in Callers : DisconnectClose(c)
    \/ \E t \in Tasks : MonitorStart(t)
    \/ \E t \in Tasks : MonitorWake(t)
    \/ \E t \in Tasks : MonitorPing(t)
    \/ \E t \in Tasks : MonitorCancelled(t)
    \/ \E c \in Callers : HealthPing(c)
    \/ \E c \in Callers : HealthInfo(c)
    \/ \E c \in Callers : Return(c)

Spec == Init /\ [][Next]_vars

\* the life cycle alone: callers that connect and disconnect (src/main.py
\* lines 11 and 18, possibly several at a time) and the monitor
LifeNext ==
    \/ \E c \in Callers, req \in BOOLEAN : CallConnect(c, req)
    \/ \E c \in Callers : CallDisconnect(c)
    \/ \E p \in Procs : ConnectEnter(p)
    \/ \E p \in Procs : ConnectPing(p)
    \/ \E p \in Procs : ConnectSleep(p)
    \/ \E c \in Callers : DisconnectEnter(c)
    \/ \E c \in Callers : DisconnectAwaited(c)
    \/ \E c \in Callers : DisconnectClose(c)
    \/ \E t \in Tasks : MonitorStart(t)
    \/ \E t \in Tasks : MonitorWake(t)
    \/ \E t \in Tasks : MonitorPing(t)
    \/ \E t \in Tasks : MonitorCancelled(t)
    \/ \E c \in Callers : Return(c)

\* the steps the event loop runs for task p once a call is made: the event
\* loop runs every ready task, every request to the store is answered or
\* times out (socket_timeout, line 88), and every sleep ends
Runs(p) ==
    \/ ConnectEnter(p)
    \/ ConnectPing(p)
    \/ ConnectSleep(p)
    \/ /\ p \in Callers
       /\ \/ DisconnectEnter(p)
          \/ DisconnectAwaited(p)
          \/ DisconnectClose(p)
          \/ Return(p)
    \/ /\ p \in Tasks
       /\ \/ MonitorStart(p)
          \/ MonitorWake(p)
          \/ MonitorPing(p)
          \/ MonitorCancelled(p)

\* the life cycle under a fair event loop
FairSpec == Init /\ [][LifeNext]_vars /\ \A p \in Procs : WF_vars(Runs(p))

\* ---------------------------------------------- get/set/get_json/delete
CacheApi == {"get", "set", "get_json", "delete"}

\* how a request to the store can end: answered; carried out by the store
\* but the answer lost (redis.TimeoutError reading the reply); not carried
\* out (redis.ConnectionError)
StoreAnswers == {"ok", "lost", "refused"}

\* the bound method the executor runs: get_json() calls self.get (line 259)
Command(op) == IF op = "get_json" THEN "get" ELSE op

\* the store's answer to a command, given its entry
StoreReply(cmd, st) ==
    CASE cmd = "get" -> IF st.present THEN Str(st.text) ELSE None
      [] cmd = "set" -> Bool(TRUE)
      [] cmd = "delete" -> Integer(IF st.present THEN 1 ELSE 0)

\* the store's entry after a command
StoreApply(cmd, st, text, ex) ==
    CASE cmd = "get" -> st
      [] cmd = "set" -> [present |-> TRUE, text |-> text, ttl |-> ex]
      [] cmd = "delete" -> NoKey

\* bool(result), lines 248 and 274
Truthy(r) ==
    CASE r.t = "bool" -> r.b
      [] r.t = "int" -> r.n # 0
      [] r.t = "none" -> FALSE

\* lines 258-265: get_json() on what self.get returned
Decoded(value) ==
    IF value = None THEN None
    ELSE IF JsonDecodable(value.s) THEN JsonLoads(value.s)
    ELSE None

\* lines 215, 248, 259-261, 274: what the call returns for the store's answer
Returns(op, reply) ==
    CASE op = "get" -> reply
      [] op = "get_json" -> Decoded(reply)
      [] op \in {"set", "delete"} -> Bool(Truthy(reply))

\* lines 216-221, 249-254, 275-280 (and 259-260 for get_json): the executor
\* raised RedisConnectionError
Unavailable(op) == IF op \in {"get", "get_json"} THEN None ELSE Bool(FALSE)

\* the call is over: the awaiting caller has its result
CacheReturn(res, clean, removed) ==
    /\ lastEvent' = Event(call.op, res, clean, removed)
    /\ prevEvent' = lastEvent
    /\ call' = NoCall

\* a call of get(k), set(k, v, e), get_json(k) or delete(k): lines 241-245
\* encode the value of set(); the executor is entered
CacheCall(op) ==
    /\ call.pc = "idle"
    /\ call' = [NoCall EXCEPT !.pc = "exec", !.op = op,
                              !.value = IF op = "set" THEN Encode(input.v)
                                        ELSE ""]
    /\ UNCHANGED <<manager, input, store, lastEvent, prevEvent>>

\* lines 167-185: one attempt of the executor and the store's answer to it
CacheAttempt(answer) ==
    /\ call.pc = "exec"
    /\ LET cmd == Command(call.op)
           applied == answer # "refused"
           removed == call.removed
                        \/ (applied /\ cmd = "delete" /\ store.present)
       IN
       /\ store' = IF applied
                   THEN StoreApply(cmd, store, call.value, input.e)
                   ELSE store
       /\ IF answer = "ok"
          THEN \* line 169
               CacheReturn(Returns(call.op, StoreReply(cmd, store)),
                           call.nfail = 0, removed)
          ELSE IF HasMoreAttempts(call.attempt)
          THEN \* lines 171-177, then line 167
               /\ call' = [call EXCEPT !.attempt = @ + 1, !.nfail = @ + 1,
                                       !.removed = removed]
               /\ UNCHANGED <<lastEvent, prevEvent>>
          ELSE \* line 185, caught by the caller
               CacheReturn(Unavailable(call.op), FALSE, removed)
    /\ UNCHANGED <<manager, input>>

\* the expiry set by `ex=expire` (line 247) has passed
StoreExpire ==
    /\ call.pc = "idle"
    /\ store.present
    /\ store.ttl # 0
    /\ store' = NoKey
    /\ lastEvent' = Event("expire", None, FALSE, FALSE)
    /\ prevEvent' = lastEvent
    /\ UNCHANGED <<manager, input, call>>

CacheInit ==
    /\ ManagerInit
    /\ \E v \in Values, e \in Expiries : CacheStart(v, e)

CacheNext ==
    \/ \E op \in CacheApi : CacheCall(op)
    \/ \E answer \in StoreAnswers : CacheAttempt(answer)
    \/ StoreExpire

\* the cache calls of one caller on one key
CacheSpec == CacheInit /\ [][CacheNext]_vars

\* --------------------------------------------------------------- claims
ReturnedFrom(c, op) == proc[c].pc = "returned" /\ proc[c].op = op

RECURSIVE BackoffSum(_)
\* retry_delay * (2^0 + ... + 2^(n-1))
BackoffSum(n) == IF n = 0 THEN 0 ELSE BackoffSum(n - 1) + retry_delay * (2 ^ (n - 1))

\* C1: a connect() whose probes all fail with a transient error makes exactly
\* retry_attempts probes and then raises (required) or returns false (not
\* required), leaving the manager Disconnected; after an unexpected error of
\* the constructor or the probe the loop is over: no task is still inside
\* connect() with such an error behind it, and the call has failed.
C1_ExhaustsThenFails ==
    /\ \A p \in Procs : proc[p].unexp => proc[p].pc \notin ConnectPcs
    /\ \A c \in Callers :
         ReturnedFrom(c, "connect") =>
           /\ (proc[c].atLock # "connected" /\ ~proc[c].unexp
                 /\ proc[c].nfail = proc[c].probes)
              => /\ proc[c].probes = retry_attempts
                 /\ proc[c].req => proc[c].result = "raise"
                 /\ ~proc[c].req => proc[c].result = "false"
                 /\ ~is_connected
           /\ proc[c].unexp
              => /\ proc[c].result = (IF proc[c].req THEN "raise" ELSE "false")
                 /\ proc[c].probes <= proc[c].nfail + 1
                 /\ ~is_connected

C1_Witness ==
    \E c \in Callers :
        /\ ReturnedFrom(c, "connect")
        /\ proc[c].req
        /\ proc[c].result = "raise"
        /\ proc[c].nfail = retry_attempts
        /\ proc[c].probes = retry_attempts

\* C2: the wait after failed attempt i is retry_delay * 2^i, no wait follows
\* the last attempt, and a connect() that succeeds after k failed probes has
\* waited retry_delay * (2^0 + ... + 2^(k-1)) and leaves the manager Connected
\* (k = retry_attempts - 1: success on the last attempt).
C2_BackoffSeries ==
    \A p \in Procs :
        /\ proc[p].pc = "c_sleep" =>
             /\ proc[p].lastWait = retry_delay * (2 ^ proc[p].attempt)
             /\ proc[p].waited = BackoffSum(proc[p].attempt + 1)
             /\ proc[p].nfail = proc[p].attempt + 1
        /\ proc[p].pc = "c_ping" => proc[p].waited = BackoffSum(proc[p].nfail)
        /\ (p \in Callers /\ ReturnedFrom(p, "connect")
              /\ proc[p].atLock # "connected") =>
             /\ proc[p].result = "true" =>
                  /\ proc[p].waited = BackoffSum(proc[p].nfail)
                  /\ proc[p].probes = proc[p].nfail + 1
                  /\ is_connected
             /\ proc[p].nfail = retry_attempts =>
                  proc[p].waited = BackoffSum(retry_attempts - 1)

C2_Witness ==
    \E c \in Callers :
        /\ ReturnedFrom(c, "connect")
        /\ proc[c].req
        /\ proc[c].result = "true"
        /\ proc[c].nfail = retry_attempts - 1
        /\ proc[c].probes = retry_attempts
        /\ proc[c].waited = BackoffSum(retry_attempts - 1)
        /\ is_connected

\* C3 as stated: of the connect() calls made concurrently while the manager
\* is Disconnected only one performs a probe burst: a caller that called
\* while another connect sequence was under way makes no probe of its own.
C3_SingleBurst ==
    \A c \in Callers : proc[c].conc => proc[c].probes = 0

\* C4: get, set, delete and exists never raise to their caller: whatever the
\* state of the manager at the call and whatever the executor or the store
\* raised, get returns absent and set, delete and exists return false.
C4_CacheOpsNeverRaise ==
    \A c \in Callers :
        ReturnedFrom(c, "cache") =>
          \A op \in CacheOps :
              /\ ApiResult(op, proc[c]) # "raise"
              /\ proc[c].exc # "none" =>
                   ApiResult(op, proc[c]) = (IF op = "get" THEN "absent" ELSE "false")

C4_Witness ==
    \E c \in Callers :
        /\ ReturnedFrom(c, "cache")
        /\ proc[c].entry = "connected"
        /\ proc[c].seen = "ResponseError"
        /\ proc[c].exc = "ResponseError"
        /\ ApiResult("get", proc[c]) = "absent"
        /\ ApiResult("exists", proc[c]) = "false"

\* C5: a get/set/delete/exists call made while the manager is not connected,
\* with or without a handle, first makes exactly one non-required connect;
\* when that connect fails the operation is never invoked and the executor
\* fails with RedisConnectionError.
C5_PreConnectOnce ==
    \A c \in Callers :
        (ReturnedFrom(c, "cache") /\ proc[c].entry # "connected") =>
          /\ proc[c].npre = 1
          /\ proc[c].preres = "false" =>
               (proc[c].ninv = 0 /\ proc[c].exc = "RedisConnectionError")

\* C6: an operation that fails with transient errors every time is invoked
\* exactly retry_attempts times; each transient failure marks the manager
\* Disconnected; after each failure but the last the executor waits
\* retry_delay (fixed) and reconnects once (not required) before the next
\* invocation; after the last it reconnects no more and raises
\* RedisConnectionError carrying the last transient failure.
C6_Counts ==
    \A p \in Procs :
        /\ proc[p].pc = "e_op" =>
             /\ proc[p].ninv = proc[p].ntrans + 1
             /\ proc[p].nreconn = proc[p].ntrans
             /\ proc[p].ewaited = proc[p].ntrans * retry_delay
        /\ proc[p].pc = "e_sleep" =>
             /\ proc[p].ninv = proc[p].ntrans
             /\ proc[p].ntrans < retry_attempts
             /\ proc[p].nreconn = proc[p].ntrans - 1
             /\ proc[p].ewaited = proc[p].ntrans * retry_delay
        /\ (proc[p].pc \in ConnectPcs /\ proc[p].ret = "e_retry") =>
             /\ ~proc[p].req
             /\ proc[p].ninv = proc[p].ntrans
             /\ proc[p].nreconn = proc[p].ntrans
        /\ (proc[p].pc = "returned" /\ proc[p].op = "cache"
              /\ proc[p].ninv >= 1 /\ proc[p].ntrans = proc[p].ninv) =>
             /\ proc[p].ninv = retry_attempts
             /\ proc[p].nreconn = retry_attempts - 1
             /\ proc[p].ewaited = (retry_attempts - 1) * retry_delay
             /\ proc[p].exc = "RedisConnectionError"
             /\ proc[p].cause = retry_attempts
             /\ proc[p].cause = proc[p].lastFail
             /\ ~is_connected

C6_TransientRetries ==
    /\ []C6_Counts
    /\ [][\A p \in Procs :
            (proc[p].pc = "e_op" /\ proc'[p].ntrans = proc[p].ntrans + 1)
              => ~is_connected']_vars

C6_Witness ==
    \E c \in Callers :
        /\ ReturnedFrom(c, "cache")
        /\ proc[c].ninv = retry_attempts
        /\ proc[c].ntrans = retry_attempts
        /\ proc[c].nreconn = retry_attempts - 1
        /\ proc[c].exc = "RedisConnectionError"
        /\ proc[c].cause = retry_attempts

\* C7: a response error or an unclassified error of the operation is not
\* retried: the call is over with it, the failing invocation was the last
\* (the only one when nothing transient went before), no reconnect follows
\* it, and the error raised is that same error, not RedisConnectionError.
C7_NotRetried ==
    \A p \in Procs :
        proc[p].seen \in {"ResponseError", "Other"} =>
          /\ proc[p].pc = "returned"
          /\ proc[p].exc = proc[p].seen
          /\ proc[p].ninv = proc[p].ntrans + 1
          /\ proc[p].nreconn = proc[p].ntrans
          /\ proc[p].lastFail = proc[p].ninv

C7_Witness ==
    \E c \in Callers :
        /\ ReturnedFrom(c, "cache")
        /\ proc[c].seen = "Other"
        /\ proc[c].exc = "Other"
        /\ proc[c].ninv = 1
        /\ proc[c].nreconn = 0

\* the probe of monitor t is answered with a failure in this step
C8_ProbeFails(t) ==
    /\ proc[t].pc = "m_ping"
    /\ faults' = faults + 1
    /\ proc'[t] # proc[t]

\* C8: a failed probe of the monitor marks the manager Disconnected and
\* starts one connect(startup_required = False): the monitor enters connect()
\* in the step of the failure and at no other time, and when that connect is
\* over (after at most retry_attempts probes) it is back at the top of its
\* loop or has ended, so one failure is followed by one reconnect sequence.
C8_MonitorReconnectsOnce ==
    /\ [][\A t \in Tasks :
            /\ C8_ProbeFails(t) =>
                 /\ ~is_connected'
                 /\ proc'[t].pc = "c_lock"
                 /\ proc'[t].ret = "m_reconnect"
                 /\ ~proc'[t].req
            /\ (proc[t].pc \notin ConnectPcs /\ proc'[t].pc \in ConnectPcs) =>
                 C8_ProbeFails(t)
            /\ (proc[t].pc \in ConnectPcs /\ proc'[t].pc \notin ConnectPcs) =>
                 proc'[t].pc \in {"m_sleep", "done"}]_vars
    /\ [](\A t \in Tasks : proc[t].probes <= retry_attempts)

C8_Witness ==
    \E t \in Tasks :
        /\ proc[t].pc = "c_lock"
        /\ proc[t].ret = "m_reconnect"
        /\ proc[t].hp = "fail"
        /\ proc[t].entry = "connected"
        /\ ~is_connected

NoLiveMonitor == health_check_task = 0 \/ TaskDone(health_check_task)

\* C9: disconnect() does not raise and when it returns the manager is
\* Disconnected, has no handle and no live monitor, also when close() failed;
\* the monitor is over before the handle is closed; and the step in which a
\* cancelled monitor ends changes neither the flag nor the handle.
C9_DisconnectPost ==
    /\ [](\A c \in Callers :
            /\ ReturnedFrom(c, "disconnect") =>
                 /\ proc[c].result = "none"
                 /\ ~is_connected
                 /\ redis = 0
                 /\ NoLiveMonitor
            /\ proc[c].pc = "d_close" =>
                 /\ NoLiveMonitor
                 /\ \A t \in Tasks : ~proc[t].cancelReq)
    /\ [][\A t \in Tasks :
            (proc[t].cancelReq /\ proc'[t] # proc[t]) =>
               /\ proc'[t].pc = "done"
               /\ is_connected' = is_connected
               /\ redis' = redis]_vars

C9_Witness ==
    \E c \in Callers :
        /\ ReturnedFrom(c, "disconnect")
        /\ proc[c].cancelled
        /\ proc[c].exc = "Other"
        /\ health_check_task # 0
        /\ proc[health_check_task].pc = "done"
        /\ redis = 0

\* C10: health_check() called while the manager is not connected (for
\* whatever reason) returns the status "disconnected".
C10_DisconnectedStatus ==
    \A c \in Callers :
        (ReturnedFrom(c, "health_check") /\ proc[c].entry # "connected") =>
          proc[c].result = "disconnected"

\* the connect() that monitor t called after a failed probe returns in this step
C13_ReconnectReturns(t) ==
    /\ proc[t].pc \in ConnectPcs
    /\ proc[t].ret = "m_reconnect"
    /\ proc'[t].pc \notin ConnectPcs
    /\ ~proc[t].cancelReq

\* C13 as stated: when the connect(startup_required = False) a monitor
\* called after a failed probe returns, the monitor is over, whether the
\* reconnect succeeded or not.
C13_MonitorExits ==
    [][\A t \in Tasks : C13_ReconnectReturns(t) => proc'[t].pc = "done"]_vars

\* C13 amended: when that connect() returns, the monitor is over if the
\* manager is left Disconnected; if the reconnect succeeded the same monitor
\* stays the manager's monitor, goes back to sleep and will probe again, and
\* the successful connect starts no other monitor.
C13_MonitorExitsOnFailure ==
    [][\A t \in Tasks :
         C13_ReconnectReturns(t) =>
           /\ ~is_connected' => proc'[t].pc = "done"
           /\ is_connected' =>
                /\ proc'[t].pc = "m_sleep"
                /\ health_check_task = t
                /\ health_check_task' = t
                /\ \A u \in Tasks \ {t} : proc'[u] = proc[u]]_vars

C13_Witness ==
    \E t \in Tasks :
        /\ proc[t].recovered
        /\ proc[t].pc = "m_sleep"
        /\ health_check_task = t
        /\ is_connected

LiveMonitors == {t \in Tasks : ~TaskDone(t)}

\* C14: at most one monitor task is alive (created and not yet finished) in
\* every reachable state, and it is the task self._health_check_task names.
C14_OneMonitor ==
    /\ Cardinality(LiveMonitors) <= 1
    /\ \A t \in LiveMonitors : health_check_task = t

\* a connect() has just succeeded with probes of its own while a monitor that
\* was already running is alive
C14_Witness ==
    \E c \in Callers, t \in Tasks :
        /\ ReturnedFrom(c, "connect")
        /\ proc[c].result = "true"
        /\ proc[c].probes >= 1
        /\ ~TaskDone(t)
        /\ proc[t].pc # "m_new"
        /\ health_check_task = t

\* C15: whenever the connected flag is set the manager holds a handle, and
\* that handle has passed its connect probe (it is neither a handle not yet
\* probed nor one whose probe failed; a later successful probe would have
\* put its own handle in its place); a manager without a handle is
\* Disconnected.
C15_ConnectedHandle ==
    /\ is_connected => (redis # 0 /\ pinged)
    /\ redis = 0 => ~is_connected

\* connected on a handle that was constructed after earlier handles had
\* failed their probes
C15_Witness ==
    /\ is_connected
    /\ redis # 0
    /\ pinged
    /\ \E c \in Callers :
         /\ ReturnedFrom(c, "connect")
         /\ proc[c].result = "true"
         /\ proc[c].nfail >= 1

\* C16: every step that changes the connected flag, the handle or the
\* monitor task handle is taken by the task that holds the lock.
C16_MutationsUnderLock ==
    [][(is_connected' # is_connected \/ redis' # redis
          \/ health_check_task' # health_check_task)
         => \E p \in Procs : lock_holder = p /\ proc'[p] # proc[p]]_vars

\* C17: every invocation the executor issues (first or retry) and every
\* probe the monitor issues goes to the handle the manager holds at that
\* moment, which has not been closed.
C17_CurrentLiveHandle ==
    [][\A p \in Procs :
         /\ (proc'[p].pc = "e_op" /\ proc'[p].ninv = proc[p].ninv + 1) =>
              (proc'[p].operation = redis' /\ proc'[p].operation \notin closed')
         /\ (proc'[p].pc = "m_ping" /\ proc[p].pc # "m_ping") =>
              (proc'[p].h = redis' /\ proc'[p].h \notin closed')]_vars

\* C18: a connect() that has probed and failed (returned false or raised)
\* leaves the manager without a handle: the handles whose probe failed are
\* discarded.
C18_FailedHandleDiscarded ==
    \A c \in Callers :
        (ReturnedFrom(c, "connect") /\ proc[c].result # "true"
           /\ proc[c].probes >= 1) => redis = 0

\* C19: whenever the connected flag is set, the task that
\* self._health_check_task names is alive.
C19_ConnectedMonitored ==
    is_connected => (health_check_task # 0 /\ ~TaskDone(health_check_task))

\* connected and monitored again after an operation failed, the executor
\* reconnected and the retry is under way
C19_Witness ==
    /\ is_connected
    /\ health_check_task # 0
    /\ ~TaskDone(health_check_task)
    /\ \E c \in Callers :
         /\ proc[c].pc = "e_op"
         /\ proc[c].ntrans >= 1
         /\ proc[c].nreconn >= 1

\* C20: under a fair event loop every disconnect() returns, whoever holds the
\* lock gives it up, and every connect() that is entered ends (for the
\* monitor: or is cancelled in the queue of the lock), having probed at most
\* retry_attempts times; in particular a disconnect() that awaits the
\* cancelled monitor is not blocked by a monitor in or queued for connect().
C20_Terminates ==
    /\ \A c \in Callers :
          (proc[c].pc \in {"d_lock", "d_await", "d_close"})
              ~> (proc[c].pc = "returned")
    /\ \A p \in Procs : (lock_holder = p) ~> (lock_holder # p)
    /\ \A p \in Procs :
          (proc[p].pc \in ConnectPcs) ~> (proc[p].pc \notin ConnectPcs)
    /\ [](\A p \in Procs : proc[p].probes <= retry_attempts)

\* disconnect() holds the lock and awaits the monitor it cancelled, and the
\* monitor sits in the queue of the lock, inside its reconnect
C20_Witness ==
    \E c \in Callers, t \in Tasks :
        /\ proc[c].pc = "d_await"
        /\ lock_holder = c
        /\ health_check_task = t
        /\ proc[t].pc = "c_lock"
        /\ proc[t].ret = "m_reconnect"
        /\ proc[t].cancelReq

\* C11: a delete() that has returned has returned true if and only if it took
\* the key out of the store, whatever failed and was retried on the way: it
\* returns true when it removed an existing key, and false when there was no
\* key to remove (never set, deleted before, expired).
C11_DeleteTrueIffRemoved ==
    lastEvent.op = "delete" =>
        (lastEvent.res = Bool(TRUE) <=> lastEvent.removed)

\* the text the store holds for v: v itself for text, str(v) for a number,
\* the JSON text for a mapping or a sequence
C12_StoredText(v) ==
    CASE v.t = "str" -> v.s
      [] v.t \in {"int", "float"} -> PyStr(v)
      [] v.t \in {"dict", "list"} -> JsonDumps(v)

\* set(k, v, e) has returned true with the store reachable, and the call
\* `op` that followed at once has returned, the store still reachable
C12_SetThen(op) ==
    /\ prevEvent.op = "set"
    /\ prevEvent.clean
    /\ prevEvent.res = Bool(TRUE)
    /\ lastEvent.op = op
    /\ lastEvent.clean

\* delete(k) has returned true and the get(k) that followed has returned
C12_DeleteThenGet ==
    /\ prevEvent.op = "delete"
    /\ prevEvent.res = Bool(TRUE)
    /\ lastEvent.op = "get"
    /\ lastEvent.clean

\* the keys of every mapping in v are text
RECURSIVE TextKeys(_)
TextKeys(v) ==
    CASE v.t = "dict" ->
           \A i \in 1..Len(v.items) :
               v.items[i][1].t = "str" /\ TextKeys(v.items[i][2])
      [] v.t = "list" -> \A i \in 1..Len(v.items) : TextKeys(v.items[i])
      [] OTHER -> TRUE

\* C12 as stated: get(k) right after set(k, v, e) returns the stored text of
\* v, get_json(k) right after it returns a value equal to v for every
\* mapping or sequence v, and get(k) after a delete(k) that returned true
\* returns None.
C12_RoundTripAny ==
    /\ C12_SetThen("get") => lastEvent.res = Str(C12_StoredText(input.v))
    /\ (C12_SetThen("get_json") /\ input.v.t \in {"dict", "list"})
          => lastEvent.res = input.v
    /\ C12_DeleteThenGet => lastEvent.res = None

\* C12, amended: get_json(k) returns a value equal to v when the keys of
\* every mapping in v are text; otherwise it returns a different value, with
\* the same JSON text as v (number keys come back as text).
C12_RoundTrip ==
    /\ C12_SetThen("get") => lastEvent.res = Str(C12_StoredText(input.v))
    /\ (C12_SetThen("get_json") /\ input.v.t \in {"dict", "list"})
          => /\ TextKeys(input.v) => lastEvent.res = input.v
             /\ ~TextKeys(input.v) =>
                   /\ lastEvent.res # input.v
                   /\ lastEvent.res.t = input.v.t
                   /\ JsonDumps(lastEvent.res) = JsonDumps(input.v)
    /\ C12_DeleteThenGet => lastEvent.res = None

\* set("session:42", {"user_id": 7}, expire = 60) and then get_json have
\* returned, and get_json returned {"user_id": 7}
C12_Witness ==
    /\ C12_SetThen("get_json")
    /\ input = [v |-> Dict(<< <<Str("user_id"), Integer(7)>> >>), e |-> 60]
    /\ lastEvent.res = input.v

====
